---------------------------- MODULE Spec2Model ----------------------------
(***************************************************************************)
(* Model of create_checklist.py: parse_xml_data reads the checklist XML    *)
(* (title, columns, categories with items), generate_checklist_pdf lays    *)
(* the categories out in columns on B6 pages through a reportlab canvas.   *)
(*                                                                         *)
(* Lengths are fixed-point: one unit is 1/10000 of a PostScript point, so  *)
(* 0.05 inch, 0.12 inch and 0.2 inch are whole numbers of units.           *)
(***************************************************************************)
EXTENDS Integers, Sequences, FiniteSets, TLC

(***************************************************************************)
(* Bounds of the explored inputs.                                          *)
(***************************************************************************)
\* most <category> elements of a source document
MaxCats == 3

(***************************************************************************)
(* USER VARIABLES of the script.                                           *)
(***************************************************************************)
\* reportlab.lib.units.inch = 72 points
inch == 720000
\* reportlab.lib.pagesizes.B6 = (125 mm, 176 mm), 1 mm = 72/25.4 points
PAGE_WIDTH == 3543307
PAGE_HEIGHT == 4988976
\* MARGIN = 0.20 * inch
MARGIN == inch \div 5
\* one point, the unit of the font sizes and of the bullet offsets 5, 2 and 15
Point == inch \div 72
\* CATEGORY_STYLE["size"] (points) and CATEGORY_STYLE["space_after"] = 0.05 * inch
CATEGORY_SIZE == 8 * Point
CATEGORY_SPACE_AFTER == inch \div 20
\* ITEM_STYLE["size"] (points) and ITEM_STYLE["line_height"] = 0.12 * inch
ITEM_SIZE == 8 * Point
ITEM_LINE_HEIGHT == (12 * inch) \div 100

(***************************************************************************)
(* Values of the XML document.                                             *)
(***************************************************************************)
\* root.find(...) is None / an attribute is absent / element.text is None
NoElem == "<no element>"
NoAttr == "<no attribute>"
NoText == "<no text>"
\* the same for <columns>, whose text is the sequence of the code points of
\* its characters (no character has a negative code point)
NoColumnsElem == <<-1>>
NoColumnsText == <<-2>>

\* the code point of DIGIT ZERO of each run of ten decimal digits in the
\* Unicode database of the runtime: int() reads every decimal digit
DecimalZeros ==
    { 48, 1632, 1776, 1984, 2406, 2534, 2662, 2790, 2918, 3046, 3174, 3302,
      3430, 3558, 3664, 3792, 3872, 4160, 4240, 6112, 6160, 6470, 6608, 6784,
      6800, 6992, 7088, 7232, 7248, 42528, 43216, 43264, 43472, 43504, 43600,
      44016, 65296, 66720, 68912, 69734, 69872, 69942, 70096, 70384, 70736,
      70864, 71248, 71360, 71472, 71904, 72016, 72784, 73040, 73120, 92768,
      92864, 93008, 120782, 120792, 120802, 120812, 120822, 123200, 123632,
      125264, 130032 }

\* the characters int() skips around the literal: tab to carriage return,
\* space, U+0085, U+00A0, U+1680, U+2000..U+200A, U+2028, U+2029, U+202F,
\* U+205F, U+3000
WhiteSpace ==
    (9..13) \cup {32, 133, 160, 5760} \cup (8192..8202)
        \cup {8232, 8233, 8239, 8287, 12288}

\* '+' and '-'
Signs == {43, 45}

\* '_'
Underscore == 95

\* int() raises ValueError for a literal of more decimal digits than this
MAX_STR_DIGITS == 4300

IsDigit(ch) == \E z \in DecimalZeros : z <= ch /\ ch <= z + 9

DigitValue(ch) == ch - (CHOOSE z \in DecimalZeros : z <= ch /\ ch <= z + 9)

\* int() skips the whitespace before and after the literal
RECURSIVE LStrip(_)
LStrip(t) == IF t # <<>> /\ Head(t) \in WhiteSpace THEN LStrip(Tail(t)) ELSE t

RECURSIVE RStrip(_)
RStrip(t) ==
    IF t # <<>> /\ t[Len(t)] \in WhiteSpace THEN RStrip(SubSeq(t, 1, Len(t) - 1)) ELSE t

Strip(t) == RStrip(LStrip(t))

\* the digits of a stripped int() literal once its sign is removed
Unsigned(t) == IF Len(t) > 0 /\ t[1] \in Signs THEN Tail(t) ELSE t

\* the number of decimal digits of a literal, leading zeros included
DigitCount(body) == Cardinality({i \in 1..Len(body) : IsDigit(body[i])})

\* int(text) raises ValueError unless text is, between whitespace, an optional
\* sign and at most MAX_STR_DIGITS digits, where single underscores may stand
\* between two digits
IsIntText(t) ==
    LET body == Unsigned(Strip(t))
    IN  /\ Len(body) > 0
        /\ \A i \in 1..Len(body) :
              \/ IsDigit(body[i])
              \/ /\ body[i] = Underscore
                 /\ 1 < i /\ i < Len(body)
                 /\ IsDigit(body[i - 1]) /\ IsDigit(body[i + 1])
        /\ DigitCount(body) <= MAX_STR_DIGITS

\* the value of the digits, the underscores between them skipped
RECURSIVE DigitsValue(_)
DigitsValue(ds) ==
    IF ds = <<>> THEN 0
    ELSE LET front == SubSeq(ds, 1, Len(ds) - 1)
             last == ds[Len(ds)]
         IN  IF last = Underscore THEN DigitsValue(front)
             ELSE 10 * DigitsValue(front) + DigitValue(last)

\* int(text) for a text int() accepts
IntOf(t) ==
    LET s == Strip(t)
    IN  IF s[1] = 45 THEN 0 - DigitsValue(Unsigned(s)) ELSE DigitsValue(Unsigned(s))

\* a sequence of n item texts
Rep(n) == [i \in 1..n |-> "item"]

(***************************************************************************)
(* Layout dimensions of generate_checklist_pdf.                            *)
(***************************************************************************)
printable_width == PAGE_WIDTH - (2 * MARGIN)

\* converting an int to float raises OverflowError when it rounds to 2^1024
\* or beyond; the first conjunct settles every int of at most 32 bits
FloatOverflow(n) ==
    LET magnitude == IF n < 0 THEN 0 - n ELSE n
    IN  magnitude > 2^30 + (2^30 - 1) /\ magnitude >= 2^1024 - 2^970

\* printable_width / num_columns raises ZeroDivisionError or OverflowError
DivisionError(num_columns) == num_columns = 0 \/ FloatOverflow(num_columns)

\* printable_width / num_columns, when the division raises nothing
column_width(num_columns) ==
    IF num_columns > 0 THEN printable_width \div num_columns
    ELSE 0 - (printable_width \div (0 - num_columns))

top_y == PAGE_HEIGHT - MARGIN - (inch \div 5)

bottom_y == MARGIN

bullet_area_width == (3 * inch) \div 10

\* the padding subtracted from current_y after the last item of a category
CategoryPadding == inch \div 5

\* the height the fit test gives a category of n items
category_height(n) == CATEGORY_SIZE + CATEGORY_SPACE_AFTER + n * ITEM_LINE_HEIGHT

\* the largest item count whose block fits a whole column
MaxFit == (top_y - bottom_y - CATEGORY_SIZE - CATEGORY_SPACE_AFTER) \div ITEM_LINE_HEIGHT

(***************************************************************************)
(* The explored source documents.                                          *)
(***************************************************************************)
\* a literal of one digit more than int() takes: '1' repeated
LongLiteral == [i \in 1..(MAX_STR_DIGITS + 1) |-> 49]

\* the text of the <columns> element; without the element num_columns is 1:
\* <columns/>, 'abc', ' ', '1__0', '0', '-1', LF U+3000 U+FF12 U+2029 (2)
\* and '+' U+0661 '_' '0' (10)
ColumnTexts ==
    { NoColumnsText, <<97, 98, 99>>, <<32>>, <<49, 95, 95, 48>>,
      <<48>>, <<45, 49>>, <<10, 12288, 65298, 8233>>, <<43, 1633, 95, 48>> }

ColumnElems == {NoColumnsElem} \cup ColumnTexts

\* the <title> element, which carries text when present
TitleElems == {NoElem, "Packing List"}

\* <category> elements: ones the loader drops, and ones of every bullet style
\* whose blocks are short, half a column, a full column and taller than one
SrcCategories ==
    { [name |-> NoAttr, style |-> "dot", items |-> <<"Shirt">>],
      [name |-> "", style |-> "box", items |-> <<"Shirt">>],
      [name |-> "Empty", style |-> "", items |-> <<NoText, "">>],
      [name |-> "Clothes", style |-> "", items |-> <<"Shirt", "", "Socks">>],
      [name |-> "Docs", style |-> "number", items |-> <<NoText, "Passport">>],
      [name |-> "Half", style |-> "dot", items |-> Rep(MaxFit \div 2)],
      [name |-> "Full", style |-> "box", items |-> Rep(MaxFit)],
      [name |-> "Tall", style |-> "-", items |-> Rep(MaxFit + 2)] }

SrcFiles ==
    { [state |-> "missing", title |-> NoElem, columns |-> NoColumnsElem, categories |-> <<>>],
      [state |-> "malformed", title |-> NoElem, columns |-> NoColumnsElem, categories |-> <<>>] }
    \cup
    [state : {"ok"}, title : TitleElems, columns : ColumnElems,
     categories : UNION {[1..n -> SrcCategories] : n \in 0..MaxCats}]
    \cup
    [state : {"ok"}, title : TitleElems, columns : {LongLiteral},
     categories : [1..1 -> SrcCategories]]

(***************************************************************************)
(* State.                                                                  *)
(***************************************************************************)
VARIABLES
    file,         \* the content of XML_INPUT_FILE
    pc,           \* position of the run
    loaded,       \* what parse_xml_data returned: "pending", "tuple" or "None"
    title,        \* checklist_title
    num_columns,  \* num_columns
    categories,   \* the loaded categories
    canvas,       \* TRUE once canvas.Canvas(PDF_OUTPUT_FILE) is constructed
    ops,          \* the draw primitives the canvas received, in order
    page,         \* the canvas' page number
    current_x, current_y, col_index,
    cat_index,    \* how many categories the for loop has drawn
    saved,        \* TRUE once c.save() wrote PDF_OUTPUT_FILE
    stdout,       \* the messages printed
    exit_status   \* the exit status of the process, -1 while it runs

vars == <<file, pc, loaded, title, num_columns, categories, canvas, ops, page,
          current_x, current_y, col_index, cat_index, saved, stdout, exit_status>>

Init ==
    /\ file \in SrcFiles
    /\ pc = "parse"
    /\ loaded = "pending"
    /\ title = ""
    /\ num_columns = 0
    /\ categories = <<>>
    /\ canvas = FALSE
    /\ ops = <<>>
    /\ page = 1
    /\ current_x = 0
    /\ current_y = 0
    /\ col_index = 0
    /\ cat_index = 0
    /\ saved = FALSE
    /\ stdout = <<>>
    /\ exit_status = -1

(***************************************************************************)
(* parse_xml_data                                                          *)
(***************************************************************************)
\* [item.text for item in category.findall('item') if item.text]
KeptItems(items) == SelectSeq(items, LAMBDA t : t # NoText /\ t # "")

\* a plausible slip: if items
KeepCategoryUnnamed(c) == KeptItems(c.items) # <<>>

\* if name and items
KeepCategory(c) == c.name # NoAttr /\ c.name # "" /\ KeptItems(c.items) # <<>>

RECURSIVE LoadCategories(_)
LoadCategories(src) ==
    IF src = <<>> THEN <<>>
    ELSE LET c == Head(src)
             rest == LoadCategories(Tail(src))
         IN  IF KeepCategory(c)
             THEN <<[name |-> c.name, items |-> KeptItems(c.items), style |-> c.style]>>
                  \o rest
             ELSE rest

\* int(columns_elem.text) raises ValueError
ColumnsValueError(f) ==
    f.columns # NoColumnsElem /\ f.columns # NoColumnsText /\ ~IsIntText(f.columns)

\* int(None) raises TypeError, which no except clause catches
ColumnsTypeError(f) == f.columns = NoColumnsText

ParsedColumns(f) == IF f.columns = NoColumnsElem THEN 1 ELSE IntOf(f.columns)

ParsedTitle(f) == IF f.title = NoElem THEN "Checklist" ELSE f.title

layout_vars == <<canvas, ops, page, current_x, current_y, col_index, cat_index, saved>>

\* the try block runs to its return
ParseOk ==
    /\ pc = "parse"
    /\ file.state = "ok"
    /\ ~ColumnsValueError(file)
    /\ ~ColumnsTypeError(file)
    /\ title' = ParsedTitle(file)
    /\ num_columns' = ParsedColumns(file)
    /\ categories' = LoadCategories(file.categories)
    /\ loaded' = "tuple"
    /\ stdout' = Append(stdout, "parsed")
    /\ pc' = "check"
    /\ UNCHANGED <<file, layout_vars, exit_status>>

\* except FileNotFoundError
ParseNotFound ==
    /\ pc = "parse"
    /\ file.state = "missing"
    /\ loaded' = "None"
    /\ stdout' = Append(stdout, "not found")
    /\ pc' = "check"
    /\ UNCHANGED <<file, title, num_columns, categories, layout_vars, exit_status>>

\* except (ET.ParseError, ValueError)
ParseFormatError ==
    /\ pc = "parse"
    /\ \/ file.state = "malformed"
       \/ file.state = "ok" /\ ColumnsValueError(file)
    /\ loaded' = "None"
    /\ stdout' = Append(stdout, "could not parse")
    /\ pc' = "check"
    /\ UNCHANGED <<file, title, num_columns, categories, layout_vars, exit_status>>

\* int(None): the TypeError leaves parse_xml_data and generate_checklist_pdf
ParseTypeError ==
    /\ pc = "parse"
    /\ file.state = "ok"
    /\ ColumnsTypeError(file)
    /\ pc' = "crashed"
    /\ exit_status' = 1
    /\ UNCHANGED <<file, loaded, title, num_columns, categories, layout_vars, stdout>>

(***************************************************************************)
(* generate_checklist_pdf                                                  *)
(***************************************************************************)
\* a plausible slip: if categories is None
NoCategoriesOnlyNone(ld, cats) == ld = "None"

\* not categories, for what parse_xml_data returned (None or a list)
NoCategories(ld, cats) == ld = "None" \/ cats = <<>>

\* if not categories: print, return; the script then ends normally
AbortNoCategories ==
    /\ pc = "check"
    /\ NoCategories(loaded, categories)
    /\ stdout' = Append(stdout, "no valid categories")
    /\ pc' = "done"
    /\ exit_status' = 0
    /\ UNCHANGED <<file, loaded, title, num_columns, categories, layout_vars>>

\* a primitive the canvas received: where it is drawn, and (for the checks) the
\* page, col_index, category and item it was drawn for
Op(kind, pg, col, x, y, text, cat, item) ==
    [kind |-> kind, page |-> pg, col |-> col, x |-> x, y |-> y,
     text |-> text, cat |-> cat, item |-> item]

\* c.setFont("Helvetica-Bold", 18); c.drawCentredString(PAGE_WIDTH / 2.0, ...)
TitleOp(pg, col) ==
    [kind |-> "title", page |-> pg, col |-> col, x |-> PAGE_WIDTH \div 2,
     y |-> PAGE_HEIGHT - MARGIN, text |-> title, cat |-> 0, item |-> 0]

\* canvas and title, layout dimensions, cursor
SetupCanvas ==
    /\ pc = "check"
    /\ ~NoCategories(loaded, categories)
    /\ ~DivisionError(num_columns)
    /\ canvas' = TRUE
    /\ ops' = <<TitleOp(1, 0)>>
    /\ current_x' = MARGIN
    /\ current_y' = top_y
    /\ col_index' = 0
    /\ pc' = "loop"
    /\ UNCHANGED <<file, loaded, title, num_columns, categories, page, cat_index,
                   saved, stdout, exit_status>>

\* printable_width / num_columns raises after the title is drawn
SetupDivisionError ==
    /\ pc = "check"
    /\ ~NoCategories(loaded, categories)
    /\ DivisionError(num_columns)
    /\ canvas' = TRUE
    /\ ops' = <<TitleOp(1, 0)>>
    /\ pc' = "crashed"
    /\ exit_status' = 1
    /\ UNCHANGED <<file, loaded, title, num_columns, categories, page, current_x,
                   current_y, col_index, cat_index, saved, stdout>>

\* a plausible slip: the test looks at the cursor, not at where the block ends
NeedsAdvanceCursorOnly(cy, height) == cy < bottom_y /\ cy # top_y

\* a plausible slip: no guard for the pristine top of a column
NeedsAdvanceNoTopGuard(cy, height) == cy - height < bottom_y

\* current_y - category_height < bottom_y and current_y != top_y
NeedsAdvance(cy, height) == cy - height < bottom_y /\ cy # top_y

\* if col_index >= num_columns, after col_index += 1
PageBreak(col, ncols) == col >= ncols

\* a plausible slip: the title is not drawn again after showPage
PageBreakOpsNoTitle(pg) == <<>>

\* c.showPage(); c.setFont(...); c.drawCentredString(...): the new page's first ops
PageBreakOps(pg) == <<TitleOp(pg, 0)>>

\* a plausible slip: after a page break current_x is left where it was
ColumnXKeptOnBreak(col, ncols) ==
    IF col = 0 THEN current_x ELSE MARGIN + (col * column_width(ncols))

\* current_x = MARGIN + (col_index * column_width)
ColumnX(col, ncols) == MARGIN + (col * column_width(ncols))

\* the bullet of item i (from 0) drawn in the given style, then the item text
ItemOps(style, pg, col, x, y, text, cat, i) ==
    LET bullet_x == x
        text_x == x + bullet_area_width
        checkbox_size == (ITEM_SIZE * 8) \div 10
        item == Op("item", pg, col, text_x, y, text, cat, i)
    IN  CASE style = "" ->
                <<Op("item", pg, col, x, y, text, cat, i),
                  Op("item", pg, col, x, y, text, cat, i)>>
          [] style = "dot" ->
                <<Op("circle", pg, col, bullet_x + 5 * Point, y - 2 * Point, "", cat, i),
                  item>>
          [] style = "box" ->
                <<Op("rect", pg, col, bullet_x, y - (checkbox_size \div 10), "", cat, i),
                  item>>
          [] style = "number" ->
                <<Op("label", pg, col, bullet_x + 15 * Point, y, "N.", cat, i), item>>
          [] OTHER ->
                <<Op("glyph", pg, col, bullet_x, y, style, cat, i), item>>

\* for i, item_text in enumerate(category["items"]), from item i on
RECURSIVE DrawItems(_, _, _, _, _, _, _)
DrawItems(c, pg, col, x, y, cat, i) ==
    IF i >= Len(c.items) THEN <<>>
    ELSE ItemOps(c.style, pg, col, x, y, c.items[i + 1], cat, i)
         \o DrawItems(c, pg, col, x, y - ITEM_LINE_HEIGHT, cat, i + 1)

\* one iteration of the for loop over categories
DrawCategory ==
    /\ pc = "loop"
    /\ cat_index < Len(categories)
    /\ LET cat == cat_index + 1
           c == categories[cat]
           n == Len(c.items)
           advance == NeedsAdvance(current_y, category_height(n))
           break == advance /\ PageBreak(col_index + 1, num_columns)
           col == IF break THEN 0
                  ELSE IF advance THEN col_index + 1 ELSE col_index
           pg == IF break THEN page + 1 ELSE page
           x == IF advance THEN ColumnX(col, num_columns) ELSE current_x
           y == IF advance THEN top_y ELSE current_y
           y_items == y - (CATEGORY_SIZE + CATEGORY_SPACE_AFTER)
       IN  /\ ops' = ops
                     \o (IF break THEN PageBreakOps(pg) ELSE <<>>)
                     \o <<Op("header", pg, col, x, y, c.name, cat, 0)>>
                     \o DrawItems(c, pg, col, x, y_items, cat, 0)
           /\ page' = pg
           /\ col_index' = col
           /\ current_x' = x
           /\ current_y' = y_items - n * ITEM_LINE_HEIGHT - CategoryPadding
           /\ cat_index' = cat
    /\ UNCHANGED <<file, pc, loaded, title, num_columns, categories, canvas, saved,
                   stdout, exit_status>>

\* c.save(), the success message, and the script ends normally
Save ==
    /\ pc = "loop"
    /\ cat_index = Len(categories)
    /\ saved' = TRUE
    /\ stdout' = Append(stdout, "saved")
    /\ pc' = "done"
    /\ exit_status' = 0
    /\ UNCHANGED <<file, loaded, title, num_columns, categories, canvas, ops, page,
                   current_x, current_y, col_index, cat_index>>

Next ==
    \/ ParseOk
    \/ ParseNotFound
    \/ ParseFormatError
    \/ ParseTypeError
    \/ AbortNoCategories
    \/ SetupCanvas
    \/ SetupDivisionError
    \/ DrawCategory
    \/ Save

Spec == Init /\ [][Next]_vars

(***************************************************************************)
(* Reading the canvas: the primitives drawn for a category.                *)
(***************************************************************************)
OpIdx == 1..Len(ops)

LineKinds == {"header", "item"}

\* the categories the loop has drawn so far
Drawn == 1..cat_index

\* the header primitive of a drawn category
HeaderIdx(cat) == CHOOSE j \in OpIdx : ops[j].kind = "header" /\ ops[j].cat = cat

HeaderOp(cat) == ops[HeaderIdx(cat)]

ItemCount(cat) == Len(categories[cat].items)

\* the height of a drawn category's block, as the fit test counts it
BlockHeight(cat) ==
    CATEGORY_SIZE + CATEGORY_SPACE_AFTER + ItemCount(cat) * ITEM_LINE_HEIGHT

\* where the cursor stood when the loop reached category cat > 1: below the block
\* of the category before it and that block's padding
CursorBefore(cat) ==
    HeaderOp(cat - 1).y - BlockHeight(cat - 1) - CategoryPadding

\* the block of category cat > 1 did not fit under the cursor
DidNotFit(cat) == CursorBefore(cat) - BlockHeight(cat) < bottom_y

RECURSIVE TotalItems(_)
TotalItems(cats) ==
    IF cats = <<>> THEN 0 ELSE Len(Head(cats).items) + TotalItems(Tail(cats))

ItemTextDraws == {j \in OpIdx : ops[j].kind = "item"}

(***************************************************************************)
(* C1: once the PDF is saved, the text of every item of every loaded       *)
(* category has been drawn exactly once: one item-text primitive per item, *)
(* none drawn twice, none omitted, whatever the bullet style.              *)
(***************************************************************************)
C1_EveryItemDrawnOnce ==
    (pc = "done" /\ saved) =>
        /\ \A cat \in 1..Len(categories) : \A i \in 0..(ItemCount(cat) - 1) :
              Cardinality({j \in ItemTextDraws :
                              /\ ops[j].cat = cat
                              /\ ops[j].item = i
                              /\ ops[j].text = categories[cat].items[i + 1]}) = 1
        /\ Cardinality(ItemTextDraws) = TotalItems(categories)

(***************************************************************************)
(* C2: a category block is atomic and stays above the bottom margin. All   *)
(* primitives of one category are on one page and in one column; when the  *)
(* block did not fit under the cursor, it starts at the top of another     *)
(* column or page and nothing of it was drawn before that; and no header   *)
(* or item line of a block that fits a whole column is drawn below         *)
(* bottom_y.                                                               *)
(***************************************************************************)
C2_BlocksAtomicAboveMargin ==
    canvas =>
        \A cat \in Drawn :
            LET first == HeaderIdx(cat)
                h == ops[first]
                fits == BlockHeight(cat) <= top_y - bottom_y
                mine == {j \in OpIdx : ops[j].cat = cat}
                moved == cat > 1 /\ DidNotFit(cat)
            IN  /\ \A j \in mine :
                      /\ ops[j].page = h.page /\ ops[j].col = h.col
                      /\ j >= first
                      /\ (fits /\ ops[j].kind \in LineKinds) => ops[j].y >= bottom_y
                /\ moved =>
                      /\ h.y = top_y
                      /\ <<h.page, h.col>> # <<HeaderOp(cat - 1).page, HeaderOp(cat - 1).col>>
                      /\ first > HeaderIdx(cat - 1)

\* a block went to the next column and a later one to the next page, and a
\* block taller than a column overflowed below the margin
C2_Witness ==
    /\ pc = "done" /\ saved
    /\ num_columns = 2
    /\ \E cat \in Drawn : cat > 1 /\ DidNotFit(cat) /\ HeaderOp(cat).col = 1
    /\ \E cat \in Drawn : cat > 1 /\ DidNotFit(cat) /\ HeaderOp(cat).page = 2
    /\ \E j \in OpIdx : ops[j].kind = "item" /\ ops[j].y < bottom_y

(***************************************************************************)
(* C4: on every page the canvas has emitted the title is drawn exactly     *)
(* once, centred at (PAGE_WIDTH / 2, PAGE_HEIGHT - MARGIN), and is the     *)
(* first primitive of the page; on a later page the header of the category *)
(* that caused the break follows it directly.                              *)
(***************************************************************************)
C4_TitleOncePerPageFirst ==
    canvas =>
        \A pg \in 1..page :
            LET onPage == {j \in OpIdx : ops[j].page = pg}
                titles == {j \in onPage : ops[j].kind = "title"}
            IN  /\ Cardinality(titles) = 1
                /\ \A t \in titles :
                      /\ ops[t].x = PAGE_WIDTH \div 2
                      /\ ops[t].y = PAGE_HEIGHT - MARGIN
                      /\ ops[t].text = title
                      /\ \A j \in onPage : t <= j
                      /\ pg > 1 => (t < Len(ops) /\ ops[t + 1].kind = "header"
                                    /\ ops[t + 1].page = pg)

\* the run ended with three pages
C4_Witness == pc = "done" /\ saved /\ page = 3

(***************************************************************************)
(* C3: whenever a header or item is drawn the column index is in           *)
(* [0, num_columns); an advance starts a new page exactly when the         *)
(* incremented column index reaches num_columns, and then the index is 0;  *)
(* otherwise the block moves one column to the right on the same page.     *)
(***************************************************************************)
C3_ColumnIndexCycles ==
    canvas =>
        /\ \A j \in OpIdx :
              ops[j].kind \in LineKinds => (0 <= ops[j].col /\ ops[j].col < num_columns)
        /\ \A cat \in Drawn \ {1} :
              LET h == HeaderOp(cat)
                  prev == HeaderOp(cat - 1)
              IN  /\ h.page \in {prev.page, prev.page + 1}
                  /\ h.page = prev.page + 1
                        <=> (DidNotFit(cat) /\ prev.col + 1 = num_columns)
                  /\ h.page = prev.page + 1 => h.col = 0
                  /\ (DidNotFit(cat) /\ prev.col + 1 < num_columns)
                        => (h.page = prev.page /\ h.col = prev.col + 1)
                  /\ ~DidNotFit(cat) => (h.page = prev.page /\ h.col = prev.col)

\* the same statement for the documents whose column count is at least 1
C3_ForPositiveColumnCount == num_columns >= 1 => C3_ColumnIndexCycles

(***************************************************************************)
(* C5: when the source has a <columns> element, the load succeeds only if  *)
(* its text is a positive integer; any other content (non-numeric, no      *)
(* text, 0, negative) ends in the FormatError outcome, None returned and   *)
(* the parse error reported, and the layout never runs with                *)
(* num_columns < 1.                                                        *)
(***************************************************************************)
PositiveIntText(t) == t # NoColumnsText /\ IsIntText(t) /\ IntOf(t) >= 1

C5_ColumnsPositiveOrFormatError ==
    (file.state = "ok" /\ file.columns # NoColumnsElem /\ pc # "parse") =>
        /\ loaded = "tuple" => PositiveIntText(file.columns)
        /\ ~PositiveIntText(file.columns) =>
              (loaded = "None" /\ stdout[1] = "could not parse")
        /\ canvas => num_columns >= 1

(***************************************************************************)
(* C6: on NotFound (no source file), FormatError (unparsable XML or a      *)
(* non-numeric column count) and EmptyResult (no category survives the     *)
(* filter) the canvas is never created, no primitive is drawn, save is     *)
(* never called, and the run ends having printed what went wrong.          *)
(***************************************************************************)
NotFound == file.state = "missing"

FormatError == file.state = "malformed" \/ (file.state = "ok" /\ ColumnsValueError(file))

\* a source category with a name and at least one item with text
ValidSource(c) ==
    /\ c.name \notin {NoAttr, ""}
    /\ \E i \in 1..Len(c.items) : c.items[i] \notin {NoText, ""}

EmptyResult ==
    /\ file.state = "ok"
    /\ ~ColumnsValueError(file) /\ ~ColumnsTypeError(file)
    /\ \A k \in 1..Len(file.categories) : ~ValidSource(file.categories[k])

C6_FailuresLeaveNoArtifact ==
    (NotFound \/ FormatError \/ EmptyResult) =>
        /\ ~canvas /\ ops = <<>> /\ ~saved
        /\ pc # "crashed"
        /\ pc = "done" =>
              /\ stdout[Len(stdout)] = "no valid categories"
              /\ NotFound => stdout[1] = "not found"
              /\ FormatError => stdout[1] = "could not parse"

\* a run of each of the three failures has ended
C6_WitnessNotFound == NotFound /\ pc = "done"

C6_WitnessFormatError == FormatError /\ file.state = "ok" /\ pc = "done"

C6_Witness == EmptyResult /\ Len(file.categories) = MaxCats /\ pc = "done"

(***************************************************************************)
(* C7: the loaded categories are exactly the source categories with a      *)
(* non-empty name and at least one item with non-empty text, in source     *)
(* order, each with its non-empty items in source order.                   *)
(***************************************************************************)
\* the position of i among the elements of a set of numbers, from 1
Rank(S, i) == Cardinality({j \in S : j <= i})

C7_LoadedAreTheValidCategories ==
    loaded = "tuple" =>
        LET src == file.categories
            valid == {i \in 1..Len(src) : ValidSource(src[i])}
        IN  /\ Len(categories) = Cardinality(valid)
            /\ \A i \in valid :
                  LET c == src[i]
                      texts == {m \in 1..Len(c.items) : c.items[m] \notin {NoText, ""}}
                      got == categories[Rank(valid, i)]
                  IN  /\ got.name = c.name
                      /\ got.style = c.style
                      /\ Len(got.items) = Cardinality(texts)
                      /\ \A m \in texts : got.items[Rank(texts, m)] = c.items[m]

\* a load that dropped a category before a kept one, and an item of a kept one
C7_Witness ==
    /\ loaded = "tuple"
    /\ Len(file.categories) = MaxCats
    /\ Len(categories) = 2
    /\ ~ValidSource(file.categories[1])
    /\ \E k \in 1..2 : \E i \in 1..MaxCats :
          /\ categories[k].name = file.categories[i].name
          /\ Len(categories[k].items) < Len(file.categories[i].items)

(***************************************************************************)
(* C8: the process ends with exit status 0 when the PDF was generated and  *)
(* with a non-zero status when the source is missing, cannot be parsed, or *)
(* no valid category remains.                                              *)
(***************************************************************************)
C8_ExitStatusTellsSuccess ==
    pc \in {"done", "crashed"} =>
        /\ saved => exit_status = 0
        /\ (NotFound \/ FormatError \/ EmptyResult) => exit_status # 0

(***************************************************************************)
(* C9: no advance is taken from the pristine top of a column. The first    *)
(* category is drawn at the top of column 0 of page 1; on every page no    *)
(* column left of a used one is blank; every emitted page has a category   *)
(* header; and there are never more pages than categories.                 *)
(***************************************************************************)
Headers == {j \in OpIdx : ops[j].kind = "header"}

C9_NoAdvanceFromPristineTop ==
    (canvas /\ cat_index >= 1) =>
        /\ LET h == HeaderOp(1)
           IN  h.page = 1 /\ h.col = 0 /\ h.x = MARGIN /\ h.y = top_y
        /\ \A j \in Headers : \A c \in 0..(ops[j].col - 1) :
              \E i \in Headers : ops[i].page = ops[j].page /\ ops[i].col = c
        /\ \A pg \in 1..page : \E i \in Headers : ops[i].page = pg
        /\ \E i \in Headers : ops[i].page = page /\ ops[i].col = col_index
        /\ page <= cat_index

\* the first category is taller than a column and was drawn first, two more
\* categories each took a page of their own
C9_Witness ==
    /\ pc = "done" /\ saved
    /\ BlockHeight(1) > top_y - bottom_y
    /\ page = 3

(***************************************************************************)
(* C10: every header and item is drawn at the x-origin of its column,      *)
(* MARGIN + col_index * column_width (the item text one bullet area to the *)
(* right when the category has a bullet), also after a page break, where   *)
(* the origin is MARGIN again; and the block drawn after an advance starts *)
(* at top_y.                                                               *)
(***************************************************************************)
C10_CursorAtColumnOrigin ==
    canvas =>
        /\ \A j \in OpIdx :
              LET origin == MARGIN + ops[j].col * column_width(num_columns)
              IN  /\ ops[j].kind = "header" => ops[j].x = origin
                  /\ ops[j].kind = "item" =>
                        ops[j].x = origin + (IF categories[ops[j].cat].style = ""
                                             THEN 0 ELSE bullet_area_width)
        /\ pc = "loop" => current_x = MARGIN + col_index * column_width(num_columns)
        /\ \A cat \in Drawn \ {1} :
              <<HeaderOp(cat).page, HeaderOp(cat).col>>
                    # <<HeaderOp(cat - 1).page, HeaderOp(cat - 1).col>>
                 => HeaderOp(cat).y = top_y

\* with two columns, a block drawn in column 1 and the next one after a page
\* break, back at the left margin
C10_Witness ==
    /\ pc = "done" /\ saved
    /\ num_columns = 2
    /\ \E cat \in Drawn \ {1} :
          /\ HeaderOp(cat - 1).col = 1 /\ HeaderOp(cat - 1).x > MARGIN
          /\ HeaderOp(cat).page = 2 /\ HeaderOp(cat).x = MARGIN

=============================================================================
